---- MODULE Spec2Model ----
(***************************************************************************)
(* The keyring proxy of proxy.go: one process, three threads of control    *)
(* that share the package-level keyring (keys, defaultKey) under the       *)
(* reader/writer mutex keysMut:                                            *)
(*   - the query responder goroutine  (tier B "retrieve-keys" queries),    *)
(*   - the event relay goroutine      (tier A user events, republished on  *)
(*                                     tier B and applied to the keyring), *)
(*   - main                           (the bootstrap query on tier A).     *)
(*                                                                         *)
(* Byte buffers live in a heap; a []byte is the address of its backing     *)
(* array (the program never reslices a stored key, so a slice header is    *)
(* the address together with the whole length).  Strings are sequences of  *)
(* symbols, sliced the way Go slices them.  A panic in any goroutine ends  *)
(* the process: halted.                                                    *)
(***************************************************************************)
EXTENDS Integers, Sequences, FiniteSets, TLC

\* ------------------------------------------------------------------ bounds
MaxEvents == 3      \* tier-A events delivered on userCh
MaxQueries == 1     \* tier-B queries delivered on queryCh

\* ------------------------------------------------------- program constants
nameLen == 16

installKeyEvent == "install-key"
removeKeyEvent == "remove-key"
setDefaultKeyEvent == "set-default-key"
wipeKeysEvent == "wipe-keys"
retrieveKeysQuery == "retrieve-keys"

\* the -prefix flag, at its default "ether:", as a sequence of symbols
eventKeyPrefix == <<"ether", ":">>

\* the nil pointer / nil slice element
NULL == 0

\* ------------------------------------------------------------ byte strings
Fill(b, n) == [i \in 1..n |-> b]

\* key[i] = 0 for every i
Zeroed(key) == [i \in 1..Len(key) |-> 0]

\* key[:nameLen] of a buffer that is long enough
Prefix(key) == SubSeq(key, 1, nameLen)

\* bytes.Equal
BytesEqual(a, b) == a = b

\* two 16-byte names that differ in their last byte only
nameA == Fill(1, nameLen)
nameB == [i \in 1..nameLen |-> IF i = nameLen THEN 2 ELSE 1]

\* key entries: name followed by key material
keyA1 == nameA \o <<5>>
keyA2 == nameA \o <<6, 7>>
keyB1 == nameB \o <<5>>

\* ------------------------------------------------------------------ inputs
\* what the transports can deliver
Event(suffix, payload, coalesce) ==
    [Name |-> eventKeyPrefix \o <<suffix>>, Payload |-> payload, Coalesce |-> coalesce]

\* well-formed mutation events
GoodEvents ==
    { Event(installKeyEvent, keyA1, TRUE),
      Event(installKeyEvent, keyA2, FALSE),
      Event(installKeyEvent, keyB1, FALSE),
      Event(removeKeyEvent, nameA, FALSE),
      Event(removeKeyEvent, nameB, TRUE),
      Event(setDefaultKeyEvent, nameA, FALSE),
      Event(setDefaultKeyEvent, nameB, TRUE),
      Event(wipeKeysEvent, <<>>, FALSE),
      Event(wipeKeysEvent, nameA, TRUE) }

\* mutation events that break the payload length rule of their case
BadEvents ==
    { Event(installKeyEvent, nameA, TRUE),
      Event(installKeyEvent, <<>>, FALSE),
      Event(removeKeyEvent, keyA1, FALSE),
      Event(setDefaultKeyEvent, <<>>, TRUE) }

\* other traffic of the event bus: an unknown suffix, another prefix, a name
\* shorter than the prefix
OtherEvents ==
    { Event("deploy", keyB1, TRUE),
      [Name |-> <<"other", ":", installKeyEvent>>, Payload |-> keyB1, Coalesce |-> FALSE],
      [Name |-> <<"ether">>, Payload |-> <<>>, Coalesce |-> FALSE] }

Events == GoodEvents \cup BadEvents \cup OtherEvents

\* req["ID"] arrives as uint64 or as int64
Query(name, id, signed) ==
    [Name |-> eventKeyPrefix \o <<name>>, ID |-> id, Signed |-> signed]

Queries ==
    { Query(retrieveKeysQuery, 7, FALSE),
      Query(retrieveKeysQuery, 8, TRUE),
      Query("ping", 9, FALSE) }

\* bootstrap responses: the decoded body of the tier-A query response
Response(default, ks) == [Default |-> default, Keys |-> ks]

Responses ==
    { Response(<<>>, <<keyA1, keyB1>>),
      Response(nameA, <<keyA1, keyB1>>),
      Response(nameB, <<keyA2>>),
      Response(nameA, <<keyA1, keyA2>>),
      Response(<<1>>, <<keyA1>>),
      Response(nameA, <<keyB1, <<9>> >>) }

NoEvent == [Name |-> <<>>, Payload |-> <<>>, Coalesce |-> FALSE]
NoQuery == [Name |-> <<>>, ID |-> 0, Signed |-> FALSE]
NoResponse == [ID |-> 0, Default |-> <<>>, Keys |-> <<>>]

\* ------------------------------------------------------------------- state
VARIABLES
    heap,        \* backing arrays of the byte slices: address -> bytes
    keys,        \* var keys [][]byte: sequence of addresses
    defaultKey,  \* var defaultKey *[]byte: NULL or the address its slice has
    writer,      \* keysMut: who holds the exclusive lock ("none", "relay", "main")
    reader,      \* keysMut: the responder holds the read lock
    halted,      \* a goroutine panicked
    pcRelay,     \* position of the event relay goroutine
    ev,          \* the relay's current event (name, payload, coalesce)
    idx,         \* the relay's loop index i of the remove case
    pre,         \* keys, defaultKey and heap as the relay found them at Lock
    outcome,     \* the exit of the relay loop body that the last event took
    taken,       \* number of events received from userCh
    lanSent,     \* number of lanRPC.UserEvent calls made
    lanLast,     \* arguments of the last lanRPC.UserEvent call
    pcResp,      \* position of the query responder goroutine
    req,         \* the responder's current query
    asked,       \* number of queries received from queryCh
    answered,    \* number of lanRPC.Respond calls made
    lastResp,    \* id and decoded content of the last lanRPC.Respond call
    pcMain,      \* position of main (the bootstrap)
    body         \* main's decoded response: Default bytes, Keys addresses

vars == <<heap, keys, defaultKey, writer, reader, halted, pcRelay, ev, idx, pre,
          outcome, taken, lanSent, lanLast, pcResp, req, asked, answered,
          lastResp, pcMain, body>>

storeVars == <<heap, keys, defaultKey>>
relayVars == <<pcRelay, ev, idx, pre, outcome, taken, lanSent, lanLast>>
respVars == <<pcResp, req, asked, answered, lastResp>>
mainVars == <<pcMain, body>>
lockVars == <<writer, reader>>

\* the heap with no buffer in it
NoHeap == [a \in {} |-> <<>>]

NoPre == [keys |-> <<>>, defaultKey |-> NULL, heap |-> NoHeap]
NoBody == [Default |-> <<>>, Keys |-> <<>>]

Init ==
    /\ heap = NoHeap
    /\ keys = <<>>
    /\ defaultKey = NULL
    /\ writer = "none"
    /\ reader = FALSE
    /\ halted = FALSE
    /\ pcRelay = "idle"
    /\ ev = NoEvent
    /\ idx = 0
    /\ pre = NoPre
    /\ outcome = "none"
    /\ taken = 0
    /\ lanSent = 0
    /\ lanLast = NoEvent
    /\ pcResp = "idle"
    /\ req = NoQuery
    /\ asked = 0
    /\ answered = 0
    /\ lastResp = NoResponse
    /\ pcMain = "query"
    /\ body = NoBody

\* ----------------------------------------------------------------- helpers
\* indexes of the entries of ks whose name is the name p, in heap h
Matches(h, ks, p) == { i \in 1..Len(ks) : BytesEqual(Prefix(h[ks[i]]), p) }

\* the first index a range loop over ks finds, 0 if the loop ends without one
FirstMatch(h, ks, p) ==
    IF Matches(h, ks, p) = {} THEN 0
    ELSE CHOOSE i \in Matches(h, ks, p) : \A j \in Matches(h, ks, p) : i <= j

\* name[:len(eventKeyPrefix)] panics when the name is shorter than the prefix
NameTooShort(name) == Len(name) < Len(eventKeyPrefix)

HasEventPrefix(name) == SubSeq(name, 1, Len(eventKeyPrefix)) = eventKeyPrefix

\* name[len(eventKeyPrefix):]
Suffix(name) == SubSeq(name, Len(eventKeyPrefix) + 1, Len(name))

\* an install length check that lets a payload of exactly nameLen bytes pass
InstallPanicsOffByOne(payload) == Len(payload) < nameLen

\* the payload length checks of the switch: TRUE when the case panics
InstallPanics(payload) == Len(payload) <= nameLen
RemovePanics(payload) == Len(payload) # nameLen
SetDefaultPanics(payload) == Len(payload) # nameLen

PayloadPanics(e) ==
    \/ Suffix(e.Name) = <<installKeyEvent>> /\ InstallPanics(e.Payload)
    \/ Suffix(e.Name) = <<removeKeyEvent>> /\ RemovePanics(e.Payload)
    \/ Suffix(e.Name) = <<setDefaultKeyEvent>> /\ SetDefaultPanics(e.Payload)

\* the cases of the switch other than default
IsMutation(name) ==
    Suffix(name) \in { <<installKeyEvent>>, <<removeKeyEvent>>,
                       <<setDefaultKeyEvent>>, <<wipeKeysEvent>> }

\* the addresses some variable of the program still refers to
Live(ks, dk, bks) ==
    {ks[i] : i \in 1..Len(ks)} \cup {bks[i] : i \in 1..Len(bks)}
        \cup (IF dk = NULL THEN {} ELSE {dk})

\* garbage collection: a buffer nothing refers to is gone
Collect(h, ks, dk, bks) == [a \in DOMAIN h \cap Live(ks, dk, bks) |-> h[a]]

\* the address of a newly allocated buffer
NewAddr(h) == CHOOSE a \in 1..(Cardinality(DOMAIN h) + 1) : a \notin DOMAIN h

\* allocation of the buffers bs, one after the other: <<heap, addresses>>
RECURSIVE AllocAll(_, _)
AllocAll(h, bs) ==
    IF bs = <<>> THEN <<h, <<>> >>
    ELSE LET a == NewAddr(h)
             rest == AllocAll(h @@ (a :> Head(bs)), Tail(bs))
         IN <<rest[1], <<a>> \o rest[2]>>

\* --------------------------------------------------------- the event relay
\* a republish that drops the coalesce flag
UserEventNoCoalesce(name, payload, coalesce) ==
    [Name |-> name, Payload |-> payload, Coalesce |-> FALSE]

\* lanRPC.UserEvent(name, payload, coalesce): the event tier B receives
UserEvent(name, payload, coalesce) ==
    [Name |-> name, Payload |-> payload, Coalesce |-> coalesce]

\* for ev := range userCh ... up to the case's keysMut.Lock()
RelayTake(e) ==
    /\ ~halted
    /\ pcRelay = "idle"
    /\ taken < MaxEvents
    /\ taken' = taken + 1
    /\ ev' = e
    /\ pre' = NoPre
    /\ UNCHANGED <<storeVars, lockVars, respVars, mainVars, idx>>
    /\ IF NameTooShort(e.Name)
       THEN /\ halted' = TRUE
            /\ outcome' = "panic"
            /\ UNCHANGED <<pcRelay, lanSent, lanLast>>
       ELSE IF ~HasEventPrefix(e.Name)
       THEN /\ outcome' = "ignored"
            /\ UNCHANGED <<halted, pcRelay, lanSent, lanLast>>
       ELSE /\ lanSent' = lanSent + 1
            /\ lanLast' = UserEvent(e.Name, e.Payload, e.Coalesce)
            /\ IF PayloadPanics(e)
               THEN /\ halted' = TRUE
                    /\ outcome' = "panic"
                    /\ UNCHANGED pcRelay
               ELSE IF IsMutation(e.Name)
               THEN /\ pcRelay' = "lock"
                    /\ outcome' = "none"
                    /\ UNCHANGED halted
               ELSE /\ outcome' = "unknown"
                    /\ UNCHANGED <<halted, pcRelay>>

\* a relay that goes back to its receive without applying the event
RelayLockDetached ==
    /\ ~halted
    /\ pcRelay = "lock"
    /\ pcRelay' = "idle"
    /\ UNCHANGED <<storeVars, lockVars, halted, ev, idx, pre, outcome, taken,
                   lanSent, lanLast, respVars, mainVars>>

\* a relay Lock that waits neither for the writer nor for the reader
RelayLockNoWait ==
    /\ ~halted
    /\ pcRelay = "lock"
    /\ writer' = "relay"
    /\ pcRelay' = Suffix(ev.Name)[1]
    /\ pre' = [keys |-> keys, defaultKey |-> defaultKey, heap |-> heap]
    /\ UNCHANGED <<storeVars, reader, halted, ev, idx, outcome, taken, lanSent,
                   lanLast, respVars, mainVars>>

\* keysMut.Lock() of the four cases
RelayLock ==
    /\ ~halted
    /\ pcRelay = "lock"
    /\ writer = "none"
    /\ ~reader
    /\ writer' = "relay"
    /\ pcRelay' = Suffix(ev.Name)[1]
    /\ pre' = [keys |-> keys, defaultKey |-> defaultKey, heap |-> heap]
    /\ UNCHANGED <<storeVars, reader, halted, ev, idx, outcome, taken, lanSent,
                   lanLast, respVars, mainVars>>

\* a duplicate search that compares whole keys instead of their names
AlreadyHaveWholeKey(h, ks, payload) ==
    \E i \in 1..Len(ks) : BytesEqual(h[ks[i]], payload)

\* the duplicate search of the install case:
\* bytes.Equal(key[:nameLen], payload[:nameLen]) for some key of keys
AlreadyHave(h, ks, payload) ==
    \E i \in 1..Len(ks) : BytesEqual(Prefix(h[ks[i]]), Prefix(payload))

\* an install case whose "already have key" exit returns without Unlock
RelayInstallKeepLock ==
    /\ ~halted
    /\ pcRelay = installKeyEvent
    /\ IF AlreadyHave(heap, keys, ev.Payload)
       THEN /\ outcome' = "duplicate"
            /\ UNCHANGED <<storeVars, writer>>
       ELSE /\ heap' = heap @@ (NewAddr(heap) :> ev.Payload)
            /\ keys' = Append(keys, NewAddr(heap))
            /\ outcome' = "installed"
            /\ writer' = "none"
            /\ UNCHANGED defaultKey
    /\ pcRelay' = "idle"
    /\ UNCHANGED <<reader, halted, ev, idx, pre, taken, lanSent, lanLast,
                   respVars, mainVars>>

\* case installKeyEvent: the duplicate search, the append, Unlock
RelayInstall ==
    /\ ~halted
    /\ pcRelay = installKeyEvent
    /\ IF AlreadyHave(heap, keys, ev.Payload)
       THEN /\ outcome' = "duplicate"
            /\ UNCHANGED storeVars
       ELSE /\ heap' = heap @@ (NewAddr(heap) :> ev.Payload)
            /\ keys' = Append(keys, NewAddr(heap))
            /\ outcome' = "installed"
            /\ UNCHANGED defaultKey
    /\ writer' = "none"
    /\ pcRelay' = "idle"
    /\ UNCHANGED <<reader, halted, ev, idx, pre, taken, lanSent, lanLast,
                   respVars, mainVars>>

\* a removal that shortens keys without moving the last element to i
SwapRemoveDropLast(ks, i) == SubSeq(ks, 1, Len(ks) - 1)

\* a removal that overwrites element i with the last one and keeps the length
SwapRemoveNoShorten(ks, i) == [ks EXCEPT ![i] = ks[Len(ks)]]

\* keys with element i replaced by the last one, then shortened by one
SwapRemove(ks, i) ==
    SubSeq([ks EXCEPT ![i] = ks[Len(ks)]], 1, Len(ks) - 1)

\* case removeKeyEvent: the search and the zeroing of the key found,
\* or the "cannot remove key" exit
RelayRemoveFind ==
    /\ ~halted
    /\ pcRelay = removeKeyEvent
    /\ LET i == FirstMatch(heap, keys, ev.Payload) IN
       IF i # 0
       THEN /\ heap' = [heap EXCEPT ![keys[i]] = Zeroed(heap[keys[i]])]
            /\ idx' = i
            /\ pcRelay' = "unlink"
            /\ UNCHANGED <<keys, defaultKey, writer, outcome>>
       ELSE /\ outcome' = "notfound"
            /\ writer' = "none"
            /\ pcRelay' = "idle"
            /\ UNCHANGED <<storeVars, idx>>
    /\ UNCHANGED <<reader, halted, ev, pre, taken, lanSent, lanLast, respVars,
                   mainVars>>

\* case removeKeyEvent: swap with last, shorten, Unlock
RelayRemoveUnlink ==
    /\ ~halted
    /\ pcRelay = "unlink"
    /\ keys' = SwapRemove(keys, idx)
    /\ heap' = Collect(heap, keys', defaultKey, body.Keys)
    /\ idx' = 0
    /\ outcome' = "removed"
    /\ writer' = "none"
    /\ pcRelay' = "idle"
    /\ UNCHANGED <<defaultKey, reader, halted, ev, pre, taken,
                   lanSent, lanLast, respVars, mainVars>>

\* a set-default case that does not clear defaultKey before the search
RelaySetDefaultKeep ==
    /\ ~halted
    /\ pcRelay = setDefaultKeyEvent
    /\ pcRelay' = "resolve"
    /\ UNCHANGED <<storeVars, lockVars, halted, ev, idx, pre, outcome, taken,
                   lanSent, lanLast, respVars, mainVars>>

\* case setDefaultKeyEvent: defaultKey = nil
RelaySetDefaultClear ==
    /\ ~halted
    /\ pcRelay = setDefaultKeyEvent
    /\ defaultKey' = NULL
    /\ heap' = Collect(heap, keys, defaultKey', body.Keys)
    /\ pcRelay' = "resolve"
    /\ UNCHANGED <<keys, lockVars, halted, ev, idx, pre, outcome, taken,
                   lanSent, lanLast, respVars, mainVars>>

\* case setDefaultKeyEvent: the search, defaultKey = &key, Unlock
RelaySetDefaultResolve ==
    /\ ~halted
    /\ pcRelay = "resolve"
    /\ LET i == FirstMatch(heap, keys, ev.Payload) IN
       IF i # 0
       THEN /\ defaultKey' = keys[i]
            /\ outcome' = "defaultset"
       ELSE /\ outcome' = "defaultmiss"
            /\ UNCHANGED defaultKey
    /\ writer' = "none"
    /\ pcRelay' = "idle"
    /\ UNCHANGED <<heap, keys, reader, halted, ev, idx, pre, taken, lanSent,
                   lanLast, respVars, mainVars>>

\* a wipe case that leaves the key bytes as they are
RelayWipeNoZero ==
    /\ ~halted
    /\ pcRelay = wipeKeysEvent
    /\ pcRelay' = "clear"
    /\ UNCHANGED <<storeVars, lockVars, halted, ev, idx, pre, outcome, taken,
                   lanSent, lanLast, respVars, mainVars>>

\* case wipeKeysEvent: zero every key
RelayWipeZero ==
    /\ ~halted
    /\ pcRelay = wipeKeysEvent
    /\ heap' = [a \in DOMAIN heap |->
                  IF \E i \in 1..Len(keys) : keys[i] = a
                  THEN Zeroed(heap[a]) ELSE heap[a]]
    /\ pcRelay' = "clear"
    /\ UNCHANGED <<keys, defaultKey, lockVars, halted, ev, idx, pre, outcome,
                   taken, lanSent, lanLast, respVars, mainVars>>

\* case wipeKeysEvent: defaultKey = nil, keys = nil, Unlock
RelayWipeClear ==
    /\ ~halted
    /\ pcRelay = "clear"
    /\ defaultKey' = NULL
    /\ keys' = <<>>
    /\ heap' = Collect(heap, keys', defaultKey', body.Keys)
    /\ outcome' = "wiped"
    /\ writer' = "none"
    /\ pcRelay' = "idle"
    /\ UNCHANGED <<reader, halted, ev, idx, pre, taken, lanSent, lanLast,
                   respVars, mainVars>>

\* ----------------------------------------------------- the query responder
\* for req := range queryCh; the name filter
RespTake(q) ==
    /\ ~halted
    /\ pcResp = "idle"
    /\ asked < MaxQueries
    /\ asked' = asked + 1
    /\ req' = q
    /\ pcResp' = IF q.Name # eventKeyPrefix \o <<retrieveKeysQuery>>
                 THEN "idle" ELSE "rlock"
    /\ UNCHANGED <<storeVars, lockVars, halted, relayVars, answered, lastResp,
                   mainVars>>

\* a read lock that does not wait for the writer to unlock
RespRLockNoWait ==
    /\ ~halted
    /\ pcResp = "rlock"
    /\ reader' = TRUE
    /\ pcResp' = "respond"
    /\ UNCHANGED <<storeVars, writer, halted, relayVars, req, asked, answered,
                   lastResp, mainVars>>

\* keysMut.RLock()
RespRLock ==
    /\ ~halted
    /\ pcResp = "rlock"
    /\ writer = "none"
    /\ reader' = TRUE
    /\ pcResp' = "respond"
    /\ UNCHANGED <<storeVars, writer, halted, relayVars, req, asked, answered,
                   lastResp, mainVars>>

\* id, ok := req["ID"].(uint64); if !ok { id = (uint64)(req["ID"].(int64)) }
QueryID(q) == q.ID

\* a snapshot whose Default is the whole default key, not its name
SnapshotWholeDefault(h, ks, dk) ==
    [Default |-> IF dk # NULL THEN h[dk] ELSE <<>>,
     Keys |-> [i \in 1..Len(ks) |-> h[ks[i]]]]

\* the resp struct the responder encodes
Snapshot(h, ks, dk) ==
    [Default |-> IF dk # NULL THEN Prefix(h[dk]) ELSE <<>>,
     Keys |-> [i \in 1..Len(ks) |-> h[ks[i]]]]

\* build and encode resp, lanRPC.Respond, keysMut.RUnlock()
RespAnswer ==
    /\ ~halted
    /\ pcResp = "respond"
    /\ lastResp' = [ID |-> QueryID(req),
                    Default |-> Snapshot(heap, keys, defaultKey).Default,
                    Keys |-> Snapshot(heap, keys, defaultKey).Keys]
    /\ answered' = answered + 1
    /\ reader' = FALSE
    /\ pcResp' = "idle"
    /\ UNCHANGED <<storeVars, writer, halted, relayVars, req, asked, mainVars>>

\* ---------------------------------------------------- main: the bootstrap
\* wanRPC.Query(...)
MainQuery ==
    /\ ~halted
    /\ pcMain = "query"
    /\ pcMain' = "lock"
    /\ UNCHANGED <<storeVars, lockVars, halted, relayVars, respVars, body>>

\* keysMut.Lock()
MainLock ==
    /\ ~halted
    /\ pcMain = "lock"
    /\ writer = "none"
    /\ ~reader
    /\ writer' = "main"
    /\ pcMain' = "wait"
    /\ UNCHANGED <<storeVars, reader, halted, relayVars, respVars, body>>

\* len(body.Default) != nameLen panics
DefaultPanics(d) == Len(d) # nameLen

\* key[:nameLen] of the keyNames loop panics on a key shorter than nameLen
KeyNamesPanics(ks) == \E i \in 1..Len(ks) : Len(ks[i]) < nameLen

\* resp := <-respCh, Decode into body, the length check, the keyNames loop
MainRecv(r) ==
    /\ ~halted
    /\ pcMain = "wait"
    /\ heap' = AllocAll(heap, r.Keys)[1]
    /\ body' = [Default |-> r.Default, Keys |-> AllocAll(heap, r.Keys)[2]]
    /\ IF DefaultPanics(r.Default) \/ KeyNamesPanics(r.Keys)
       THEN /\ halted' = TRUE
            /\ UNCHANGED pcMain
       ELSE /\ pcMain' = "resolve"
            /\ UNCHANGED halted
    /\ UNCHANGED <<keys, defaultKey, lockVars, relayVars, respVars>>

\* a default resolution that does not reset defaultKey before the search
MainResolveKeep ==
    /\ ~halted
    /\ pcMain = "resolve"
    /\ LET i == FirstMatch(heap, body.Keys, body.Default) IN
       defaultKey' = IF i # 0 THEN body.Keys[i] ELSE defaultKey
    /\ heap' = Collect(heap, keys, defaultKey', body.Keys)
    /\ pcMain' = "adopt"
    /\ UNCHANGED <<keys, lockVars, halted, relayVars, respVars, body>>

\* defaultKey = nil and the search over body.Keys
MainResolve ==
    /\ ~halted
    /\ pcMain = "resolve"
    /\ LET i == FirstMatch(heap, body.Keys, body.Default) IN
       defaultKey' = IF i # 0 THEN body.Keys[i] ELSE NULL
    /\ heap' = Collect(heap, keys, defaultKey', body.Keys)
    /\ pcMain' = "adopt"
    /\ UNCHANGED <<keys, lockVars, halted, relayVars, respVars, body>>

\* an adoption that appends the response's keys to the existing keyring
MainAdoptAppend ==
    /\ ~halted
    /\ pcMain = "adopt"
    /\ keys' = keys \o body.Keys
    /\ body' = NoBody
    /\ heap' = Collect(heap, keys', defaultKey, body'.Keys)
    /\ writer' = "none"
    /\ pcMain' = "done"
    /\ UNCHANGED <<defaultKey, reader, halted, relayVars, respVars>>

\* keys = body.Keys, keysMut.Unlock()
MainAdopt ==
    /\ ~halted
    /\ pcMain = "adopt"
    /\ keys' = body.Keys
    /\ body' = NoBody
    /\ heap' = Collect(heap, keys', defaultKey, body'.Keys)
    /\ writer' = "none"
    /\ pcMain' = "done"
    /\ UNCHANGED <<defaultKey, reader, halted, relayVars, respVars>>

\* ------------------------------------------------------------------- system
Next ==
    \/ \E e \in Events : RelayTake(e)
    \/ RelayLock
    \/ RelayInstall
    \/ RelayRemoveFind
    \/ RelayRemoveUnlink
    \/ RelaySetDefaultClear
    \/ RelaySetDefaultResolve
    \/ RelayWipeZero
    \/ RelayWipeClear
    \/ \E q \in Queries : RespTake(q)
    \/ RespRLock
    \/ RespAnswer
    \/ MainQuery
    \/ MainLock
    \/ \E r \in Responses : MainRecv(r)
    \/ MainResolve
    \/ MainAdopt

Spec == Init /\ [][Next]_vars

\* the steps the relay goroutine takes by itself once it has an event
RelayRuns ==
    \/ RelayLock
    \/ RelayInstall
    \/ RelayRemoveFind
    \/ RelayRemoveUnlink
    \/ RelaySetDefaultClear
    \/ RelaySetDefaultResolve
    \/ RelayWipeZero
    \/ RelayWipeClear

\* the steps the responder goroutine takes by itself once it has a query
RespRuns == RespRLock \/ RespAnswer

\* the steps of main that do not wait for the transport
MainRuns == MainQuery \/ MainLock \/ MainResolve \/ MainAdopt

\* the scheduler runs each goroutine that can take a step; the arrival of
\* events, of queries and of the bootstrap response is left to the transport
FairSpec ==
    /\ Spec
    /\ WF_vars(RelayRuns)
    /\ WF_vars(RespRuns)
    /\ WF_vars(MainRuns)

\* ================================================================== claims
Range(sq) == {sq[i] : i \in 1..Len(sq)}

\* the entries of a keyring, as bytes
KeyBytes(h, ks) == [i \in 1..Len(ks) |-> h[ks[i]]]

\* some entry of the keyring ks carries the 16-byte name p
HasName(h, ks, p) == \E i \in 1..Len(ks) : SubSeq(h[ks[i]], 1, nameLen) = p

\* the event name carries the configured prefix
CarriesPrefix(name) ==
    /\ Len(name) >= Len(eventKeyPrefix)
    /\ SubSeq(name, 1, Len(eventKeyPrefix)) = eventKeyPrefix

\* the part of a prefixed event name after the prefix
EventKind(e) == SubSeq(e.Name, Len(eventKeyPrefix) + 1, Len(e.Name))

\* a prefixed event that breaks the payload length rule of its kind
Malformed(e) ==
    /\ CarriesPrefix(e.Name)
    /\ \/ EventKind(e) = <<installKeyEvent>> /\ Len(e.Payload) <= nameLen
       \/ EventKind(e) = <<removeKeyEvent>> /\ Len(e.Payload) # nameLen
       \/ EventKind(e) = <<setDefaultKeyEvent>> /\ Len(e.Payload) # nameLen

\* a prefixed, well-formed install, remove, set-default or wipe event
AcceptedMutation(e) ==
    /\ CarriesPrefix(e.Name)
    /\ EventKind(e) \in { <<installKeyEvent>>, <<removeKeyEvent>>,
                          <<setDefaultKeyEvent>>, <<wipeKeysEvent>> }
    /\ ~Malformed(e)

\* the step in which the relay receives its next event, ev'
RelayTakes == taken' = taken + 1

\* the step in which main receives and decodes the bootstrap response
MainReceives == pcMain = "wait" /\ body' # body

\* C1: whenever no mutation is in progress, a non-null default reference
\* designates an entry that is in the keyring (so the default is null after
\* the entry it designated has been removed).
C1_DefaultPresent ==
    (writer = "none" /\ defaultKey # NULL) => defaultKey \in Range(keys)

\* C2: in every state no two entries of the keyring carry the same 16-byte
\* name, whether they were installed by events or adopted by the bootstrap.
C2_UniquePrefix ==
    \A i, j \in 1..Len(keys) :
        i # j => SubSeq(heap[keys[i]], 1, nameLen) # SubSeq(heap[keys[j]], 1, nameLen)

\* C3: an install whose 16-byte name is already in the keyring changes
\* neither the entries, their bytes nor the default and does not halt; any
\* other install appends the payload as a new last entry.
C3_InstallIdempotent ==
    [][(pcRelay = installKeyEvent /\ pcRelay' = "idle") =>
          /\ ~halted'
          /\ defaultKey' = defaultKey
          /\ IF HasName(heap, keys, SubSeq(ev.Payload, 1, nameLen))
             THEN keys' = keys /\ heap' = heap
             ELSE KeyBytes(heap', keys') = Append(KeyBytes(heap, keys), ev.Payload)]_vars

\* C3 witness: keyA2 was installed over keyA1 of the same name, and the
\* keyring is still exactly the first key.
C3_Witness ==
    /\ pcRelay = "idle"
    /\ outcome = "duplicate"
    /\ ev.Payload = keyA2
    /\ KeyBytes(heap, keys) = <<keyA1>>
    /\ pre.keys = keys
    /\ defaultKey = NULL

\* C4: a remove of a name that is present takes exactly one entry of that
\* name out of the keyring, its bytes zeroed, and leaves the other entries
\* and their bytes alone; a remove of an absent name changes neither the
\* keyring nor the default, and the relay goes on.
C4_Remove ==
    [][/\ (pcRelay = removeKeyEvent /\ pcRelay' # removeKeyEvent) =>
             /\ ~halted'
             /\ IF HasName(heap, keys, ev.Payload)
                THEN pcRelay' = "unlink"
                ELSE /\ pcRelay' = "idle"
                     /\ keys' = keys
                     /\ heap' = heap
                     /\ defaultKey' = defaultKey
       /\ (pcRelay = "unlink" /\ pcRelay' = "idle") =>
             /\ ~halted'
             /\ Len(keys') = Len(pre.keys) - 1
             /\ \E i \in 1..Len(pre.keys) :
                   /\ SubSeq(pre.heap[pre.keys[i]], 1, nameLen) = ev.Payload
                   /\ heap[pre.keys[i]] = [n \in 1..Len(pre.heap[pre.keys[i]]) |-> 0]
                   /\ Range(keys') = Range(pre.keys) \ {pre.keys[i]}
             /\ \A a \in Range(keys') : heap'[a] = pre.heap[a]]_vars

\* C4 witness: the first of two entries was removed.
C4_Witness ==
    /\ pcRelay = "idle"
    /\ outcome = "removed"
    /\ Len(pre.keys) = 2
    /\ Range(keys) = {pre.keys[2]}
    /\ Len(keys) = 1

\* C5: a set-default of a name that is present makes an entry of that name
\* the default; of an absent name it leaves the default null, whatever the
\* default was before; either way the entries are unchanged and the relay
\* does not halt.
C5_SetDefault ==
    [][(pcRelay = "resolve" /\ pcRelay' = "idle") =>
          /\ ~halted'
          /\ keys' = pre.keys
          /\ KeyBytes(heap', keys') = KeyBytes(pre.heap, pre.keys)
          /\ IF HasName(pre.heap, pre.keys, ev.Payload)
             THEN /\ defaultKey' \in Range(keys')
                  /\ SubSeq(heap'[defaultKey'], 1, nameLen) = ev.Payload
             ELSE defaultKey' = NULL]_vars

\* C5 witness: an entry was the default, and a set-default of an absent
\* name has left the default null.
C5_Witness ==
    /\ pcRelay = "idle"
    /\ outcome = "defaultmiss"
    /\ pre.defaultKey \in Range(pre.keys)
    /\ keys = pre.keys
    /\ defaultKey = NULL

\* C6: a wipe event of any payload length is never fatal; it leaves the
\* keyring empty and the default null, and every entry that was present has
\* been zeroed.
C6_Wipe ==
    [][/\ (RelayTakes /\ ev'.Name = eventKeyPrefix \o <<wipeKeysEvent>>) =>
             ~halted' /\ pcRelay' = "lock"
       /\ (pcRelay = "clear" /\ pcRelay' = "idle") =>
             /\ ~halted'
             /\ keys' = <<>>
             /\ defaultKey' = NULL
             /\ \A a \in Range(pre.keys) :
                   heap[a] = [n \in 1..Len(pre.heap[a]) |-> 0]]_vars

\* C6 witness: a wipe with a non-empty payload has emptied a keyring of two
\* entries that had a default.
C6_Witness ==
    /\ pcRelay = "idle"
    /\ outcome = "wiped"
    /\ ev.Payload # <<>>
    /\ Len(pre.keys) = 2
    /\ pre.defaultKey # NULL
    /\ keys = <<>>
    /\ defaultKey = NULL

\* C7: the step that receives an accepted mutation event republishes it
\* once, with the same name, payload and coalesce flag; no other step of the
\* relay's handling of the event publishes anything, so the event is on
\* tier B whatever the keyring then does with it.
C7_Republish ==
    [][/\ (RelayTakes /\ AcceptedMutation(ev')) =>
             lanSent' = lanSent + 1 /\ lanLast' = ev'
       /\ ~RelayTakes => (lanSent' = lanSent /\ lanLast' = lanLast)
       /\ pcRelay' # "idle" => lanLast' = ev']_vars

\* C7 witness: two installs were received, the second a duplicate, and both
\* were republished.
C7_Witness ==
    /\ pcRelay = "idle"
    /\ outcome = "duplicate"
    /\ taken = 2
    /\ lanSent = 2
    /\ lanLast = ev

\* C8: a prefixed install with at most 16 payload bytes, or remove or
\* set-default with other than 16, halts the process with the keyring, its
\* bytes and the default as they were; nothing happens after the halt.
C8_MalformedFatal ==
    [][/\ (RelayTakes /\ Malformed(ev')) =>
             halted' /\ keys' = keys /\ defaultKey' = defaultKey /\ heap' = heap
       /\ halted => UNCHANGED vars]_vars

\* C8 witness: an install of exactly 16 bytes has halted the process, the
\* keyring of one entry intact.
C8_Witness ==
    /\ halted
    /\ outcome = "panic"
    /\ ev = Event(installKeyEvent, nameA, TRUE)
    /\ KeyBytes(heap, keys) = <<keyB1>>

\* C9: an event whose name does not carry the prefix, a name shorter than
\* the prefix included, is skipped: nothing is republished, the keyring and
\* the default stay, the process does not halt and the relay is ready for
\* the next event.
C9_ForeignIgnored ==
    [][(RelayTakes /\ ~CarriesPrefix(ev'.Name)) =>
          /\ ~halted'
          /\ lanSent' = lanSent
          /\ keys' = keys
          /\ defaultKey' = defaultKey
          /\ pcRelay' = "idle"]_vars

\* C10: a bootstrap response (its keys well-formed) halts the process exactly
\* when its Default field is neither 0 nor 16 bytes long.
C10_BootstrapDefaultLength ==
    [][(MainReceives /\ \A a \in Range(body'.Keys) : Len(heap'[a]) >= nameLen) =>
          (halted' <=> Len(body'.Default) \notin {0, nameLen})]_vars

\* C11: when the Default name of the bootstrap response is the name of one
\* of the response's keys, the default becomes such a key; when it is the
\* name of none, the default is null; either way the response's keys become
\* the keyring and the process does not halt.
C11_BootstrapDefault ==
    [][/\ (pcMain = "resolve" /\ pcMain' # "resolve") =>
             /\ ~halted'
             /\ pcMain' = "adopt"
             /\ IF HasName(heap, body.Keys, body.Default)
                THEN /\ defaultKey' \in Range(body.Keys)
                     /\ SubSeq(heap'[defaultKey'], 1, nameLen) = body.Default
                ELSE defaultKey' = NULL
       /\ (pcMain = "adopt" /\ pcMain' # "adopt") =>
             /\ ~halted'
             /\ pcMain' = "done"
             /\ defaultKey' = defaultKey
             /\ keys' = body.Keys
             /\ KeyBytes(heap', keys') = KeyBytes(heap, body.Keys)]_vars

\* C11 witness: the bootstrap has adopted the response {Default: nameB,
\* Keys: [keyA2]}, the only response whose keys are keyA2 alone, before any
\* event was received, and the default is null.
C11_Witness ==
    /\ pcMain = "done"
    /\ ~halted
    /\ taken = 0
    /\ KeyBytes(heap, keys) = <<keyA2>>
    /\ defaultKey = NULL

\* a mutation has been applied in part: a key zeroed but still in the
\* keyring, the default cleared but not yet set again, the keys zeroed but
\* not yet dropped, the bootstrap's default set but its keys not yet adopted
PartlyApplied ==
    \/ pcRelay \in {"unlink", "resolve", "clear"}
    \/ pcMain = "adopt"

\* C12: a retrieve-keys response is never built while a mutation is partly
\* applied, the keyring does not change while the responder reads it, and
\* the response is the keyring and default of that one moment: it shows
\* each mutation either not at all or in full.
C12_SnapshotAtomic ==
    [][/\ pcResp = "respond" =>
             /\ ~PartlyApplied
             /\ keys' = keys /\ defaultKey' = defaultKey /\ heap' = heap
       /\ answered' # answered =>
             /\ pcResp = "respond"
             /\ lastResp'.Keys = KeyBytes(heap, keys)
             /\ lastResp'.Default =
                   IF defaultKey = NULL THEN <<>>
                   ELSE SubSeq(heap[defaultKey], 1, nameLen)]_vars

\* C12 witness: a response was sent between two installs and shows the
\* keyring of the first install alone.
C12_Witness ==
    /\ answered = 1
    /\ pcResp = "idle"
    /\ lastResp.Keys = <<keyA1>>
    /\ lastResp.Default = <<>>
    /\ outcome = "installed"
    /\ pcRelay = "idle"
    /\ KeyBytes(heap, keys) = <<keyA1, keyB1>>

\* C13: from the moment the bootstrap query has been issued until the
\* bootstrap starts to adopt the response, main holds the exclusive lock, so
\* no relay mutation changes the keyring or the default and no retrieve-keys
\* query is answered.
C13_BootstrapLockFirst ==
    [][(pcMain = "lock" \/ pcMain = "wait") =>
          (/\ writer = "main"
           /\ keys' = keys
           /\ defaultKey' = defaultKey
           /\ answered' = answered)]_vars

\* the step in which the responder receives its next query, req'
RespTakes == asked' = asked + 1

\* C14: a query named prefix + "retrieve-keys" is taken up for an answer,
\* and the answer is one response, addressed to the ID of that query, that
\* holds all entries of the keyring and the 16-byte name of the default
\* (empty without a default) as they are when it is built; a query of any
\* other name gets no response and changes nothing.
C14_QueryAnswer ==
    [][/\ (RespTakes /\ req'.Name = eventKeyPrefix \o <<retrieveKeysQuery>>) =>
             pcResp' = "rlock" /\ answered' = answered
       /\ (RespTakes /\ req'.Name # eventKeyPrefix \o <<retrieveKeysQuery>>) =>
             /\ pcResp' = "idle"
             /\ answered' = answered
             /\ lastResp' = lastResp
             /\ UNCHANGED <<heap, keys, defaultKey, writer, reader, halted>>
       /\ pcResp # "idle" => req' = req
       /\ answered' # answered =>
             /\ pcResp = "respond" /\ pcResp' = "idle"
             /\ req.Name = eventKeyPrefix \o <<retrieveKeysQuery>>
             /\ answered' = answered + 1
             /\ lastResp'.ID = req.ID
             /\ lastResp'.Keys = KeyBytes(heap, keys)
             /\ lastResp'.Default =
                   IF defaultKey = NULL THEN <<>>
                   ELSE SubSeq(heap[defaultKey], 1, nameLen)
             /\ UNCHANGED <<heap, keys, defaultKey>>]_vars

\* C14 witness: the query with ID 8 was answered with a keyring of two
\* entries and the name of its default.
C14_Witness ==
    /\ answered = 1
    /\ pcResp = "idle"
    /\ req = Query(retrieveKeysQuery, 8, TRUE)
    /\ lastResp = [ID |-> 8, Default |-> nameA, Keys |-> <<keyA1, keyB1>>]

\* C15: whatever the relay publishes on tier B has passed the payload length
\* rule of its kind: a malformed install, remove or set-default event is
\* never republished.
C15_ValidateBeforeRelay ==
    [][lanSent' # lanSent => ~Malformed(lanLast')]_vars

\* the relay is between keysMut.Lock() and keysMut.Unlock()
RelayHolds ==
    pcRelay \in {installKeyEvent, removeKeyEvent, setDefaultKeyEvent,
                 wipeKeysEvent, "unlink", "resolve", "clear"}

\* main is between keysMut.Lock() and keysMut.Unlock()
MainHolds == pcMain \in {"wait", "resolve", "adopt"}

\* the responder is between keysMut.RLock() and keysMut.RUnlock()
RespHolds == pcResp = "respond"

\* at most one exclusive holder, and no reader beside it
Exclusion ==
    /\ ~(RelayHolds /\ MainHolds)
    /\ (RelayHolds \/ MainHolds) => ~RespHolds

\* C16: the relay and main never hold the exclusive lock together, the
\* responder never holds the read lock while one of them holds the
\* exclusive lock, every change of the keyring, its bytes or the default is
\* a step of the relay or of main made while that process holds the
\* exclusive lock, and a response is built only under the read lock.
C16_LockDiscipline ==
    [][/\ Exclusion
       /\ Exclusion'
       /\ (keys' # keys \/ defaultKey' # defaultKey \/ heap' # heap) =>
             \/ RelayHolds /\ relayVars' # relayVars /\ mainVars' = mainVars
             \/ MainHolds /\ mainVars' # mainVars /\ relayVars' = relayVars
       /\ answered' # answered => RespHolds]_vars

\* C16 witness: the relay is in the middle of a removal while main and the
\* responder both wait for the lock.
C16_Witness ==
    /\ pcRelay = "unlink"
    /\ writer = "relay"
    /\ pcMain = "lock"
    /\ pcResp = "rlock"
    /\ ~reader

\* the ways the case of an accepted mutation event can end
AppliedOutcomes(e) ==
    IF EventKind(e) = <<installKeyEvent>> THEN {"installed", "duplicate"}
    ELSE IF EventKind(e) = <<removeKeyEvent>> THEN {"removed", "notfound"}
    ELSE IF EventKind(e) = <<setDefaultKeyEvent>> THEN {"defaultset", "defaultmiss"}
    ELSE {"wiped"}

\* C17: the relay receives an event only when it is done with the one
\* before: an accepted event is republished in the step that receives it,
\* nothing is received or republished while its case runs, and its case has
\* ended on the keyring before the next event is received; so tier B sees
\* the accepted events, and the keyring applies them, in the order received.
C17_Sequential ==
    [][/\ RelayTakes =>
             /\ pcRelay = "idle"
             /\ AcceptedMutation(ev) => outcome \in AppliedOutcomes(ev)
             /\ AcceptedMutation(ev') =>
                   lanSent' = lanSent + 1 /\ lanLast' = ev' /\ pcRelay' = "lock"
       /\ pcRelay # "idle" =>
             /\ AcceptedMutation(ev)
             /\ ev' = ev /\ taken' = taken /\ lanSent' = lanSent
             /\ pcRelay' = "idle" => outcome' \in AppliedOutcomes(ev)]_vars

\* C17 witness: three accepted events were received, republished and applied
\* one after the other, the last a removal.
C17_Witness ==
    /\ taken = 3
    /\ lanSent = 3
    /\ pcRelay = "idle"
    /\ ev = Event(removeKeyEvent, nameB, TRUE)
    /\ lanLast = ev
    /\ outcome = "removed"
    /\ KeyBytes(heap, keys) = <<keyA1>>
    /\ pcMain = "query"

\* C18: the decoded response is one of the responses sent and stays as
\* decoded until it is adopted; in the step in which the bootstrap releases
\* the lock the keyring becomes exactly the response's entries, none of the
\* entries it held before remains, and the default is the one resolved from
\* the response: an entry of the Default name, or null.
C18_BootstrapReplaces ==
    [][/\ (MainReceives /\ ~halted') =>
             Response(body'.Default, KeyBytes(heap', body'.Keys)) \in Responses
       /\ pcMain = "resolve" =>
             body' = body /\ KeyBytes(heap', body.Keys) = KeyBytes(heap, body.Keys)
       /\ (pcMain = "adopt" /\ pcMain' # "adopt") =>
             /\ pcMain' = "done"
             /\ writer = "main" /\ writer' = "none"
             /\ KeyBytes(heap', keys') = KeyBytes(heap, body.Keys)
             /\ Range(keys') \cap Range(keys) = {}
             /\ IF HasName(heap, body.Keys, body.Default)
                THEN /\ defaultKey' \in Range(keys')
                     /\ SubSeq(heap'[defaultKey'], 1, nameLen) = body.Default
                ELSE defaultKey' = NULL]_vars

\* C18 witness: keyB1 was installed before the bootstrap took the lock, and
\* after the bootstrap the keyring is the response's keyA2 alone.
C18_Witness ==
    /\ pcMain = "done"
    /\ pcRelay = "idle"
    /\ taken = 1
    /\ outcome = "installed"
    /\ ev = Event(installKeyEvent, keyB1, FALSE)
    /\ KeyBytes(heap, keys) = <<keyA2>>
    /\ defaultKey = NULL

\* the event being handled names a prefix other than the default's at Lock
RemovesNonDefault ==
    \/ pre.defaultKey = NULL
    \/ SubSeq(pre.heap[pre.defaultKey], 1, nameLen) # ev.Payload

\* C19: when a remove-key event for a present prefix other than the
\* default's completes, the keyring holds each of the other entries exactly
\* once with the bytes it had, one entry of the removed prefix is gone, and
\* the default is the same entry with the same bytes as before.
C19_RemoveFrame ==
    [][(pcRelay = "unlink" /\ pcRelay' = "idle" /\ RemovesNonDefault) =>
          /\ defaultKey' = pre.defaultKey
          /\ defaultKey' # NULL => heap'[defaultKey'] = pre.heap[pre.defaultKey]
          /\ Cardinality(Range(keys')) = Len(keys')
          /\ Cardinality(Range(pre.keys) \ Range(keys')) = 1
          /\ Range(keys') \subseteq Range(pre.keys)
          /\ \A a \in Range(pre.keys) \ Range(keys') :
                SubSeq(pre.heap[a], 1, nameLen) = ev.Payload
          /\ \A a \in Range(keys') : heap'[a] = pre.heap[a]]_vars

\* C19 witness: of two entries the first was removed while the second was
\* the default; the second is the only entry left and is still the default.
C19_Witness ==
    /\ pcRelay = "idle"
    /\ outcome = "removed"
    /\ ev.Payload = nameA
    /\ Len(pre.keys) = 2
    /\ pre.defaultKey = pre.keys[2]
    /\ keys = <<pre.keys[2]>>
    /\ defaultKey = pre.keys[2]
    /\ heap[defaultKey] = keyB1

\* a process that is at its loop head holds no lock
Released ==
    /\ pcRelay = "idle" => writer # "relay"
    /\ pcMain = "done" => writer # "main"
    /\ pcResp = "idle" => ~reader

\* C20: a process back at its loop head has released the lock it took; once
\* the bootstrap has released the lock, a matching query that was received
\* is eventually answered and an accepted event that was received is
\* eventually applied, unless the process has halted on a fatal path; and
\* while the bootstrap holds the lock waiting for its response, no query is
\* answered and nothing of the keyring changes.
C20_Progress ==
    /\ []Released
    /\ (pcMain = "done" /\ pcResp # "idle") ~> (pcResp = "idle" \/ halted)
    /\ (pcMain = "done" /\ pcRelay # "idle") ~>
          (pcRelay = "idle" /\ outcome \in AppliedOutcomes(ev))
    /\ [][pcMain = "wait" =>
             /\ writer = "main"
             /\ answered' = answered
             /\ keys' = keys
             /\ defaultKey' = defaultKey
             /\ \A a \in Range(keys) \cup ({defaultKey} \ {NULL}) :
                   heap'[a] = heap[a]]_vars

\* C20 witness: after the bootstrap adopted keyA2 an install of keyB1 was
\* applied and a query was then answered with both.
C20_Witness ==
    /\ pcMain = "done"
    /\ pcRelay = "idle"
    /\ outcome = "installed"
    /\ pcResp = "idle"
    /\ answered = 1
    /\ lastResp.Keys = <<keyA2, keyB1>>
    /\ Released

====
